---- MODULE Spec2Model ----
(***************************************************************************)
(* Model of the request handlers of app/main.py (weather app backend):     *)
(* create_location, delete_location, create_info (ingestion) and           *)
(* delete_weather_info, over a store of WeatherLocation and WeatherInfo    *)
(* rows.  FastAPI runs each plain "def" handler on a worker thread, so a   *)
(* handler is a sequence of steps, one per database operation or provider  *)
(* call, and the steps of two requests interleave.                         *)
(*                                                                         *)
(* Dates are day numbers.  Python's None is the string "None" for city and *)
(* country, the empty sequence for lat/lon, and the kind "none" for the    *)
(* date fields of a request body.                                          *)
(***************************************************************************)
EXTENDS Integers, Sequences, FiniteSets, TLC

\* ------------------------------------------------------------- bounds
Today == 1            \* the value of date.today(), fixed during a run
MaxReqs == 2          \* requests received during a run

\* ---------------------------------------------------- program constants
Horizon == 5          \* timedelta(days=5)

Procs == {1, 2}       \* worker threads

None == "None"

VARIABLES
  locs,        \* WeatherLocation rows: [id, city, country, lat, lon]
  infos,       \* WeatherInfo rows: [id, location_id, date, via]
  nextLocId,   \* next primary key of WeatherLocation
  nextInfoId,  \* next primary key of WeatherInfo
  pc,          \* pc[p]: where worker p is in its handler
  req,         \* req[p]: the request body / path parameters p is serving
  res,         \* res[p]: the HTTP status and detail p answered with
  loc,         \* create_info: id of the local `loc`; create_location: lat/lon
  cur,         \* create_info: the local `current`
  ret,         \* create_info: the local `infos`; other handlers: the returned rows
  resp,        \* the provider response not yet stored (info_data / data)
  calls,       \* provider calls made by the request p is serving
  created,     \* ids of the WeatherInfo rows the request has inserted
  newLoc,      \* ids of the WeatherLocation rows the request has inserted
  prev,        \* the last completed ingestion, forgotten at a successful delete
  served       \* requests received so far

vars == <<locs, infos, nextLocId, nextInfoId, pc, req, res, loc, cur, ret,
          resp, calls, created, newLoc, prev, served>>

\* -------------------------------------------------------------- values
NoDate == [k |-> "none", d |-> 0]
Iso(d) == [k |-> "iso", d |-> d]          \* a well-formed "YYYY-MM-DD" string
BadDate == [k |-> "bad", d |-> 0]         \* a string that is no ISO date
NonStr == [k |-> "nonstr", d |-> 0]       \* a truthy JSON value that is no string

NoReq == [op |-> "none", city |-> None, country |-> None, lat |-> <<>>,
          lon |-> <<>>, start_date |-> NoDate, end_date |-> NoDate, id |-> 0]
NoRes == [code |-> 0, detail |-> ""]
NoResp == [src |-> "none", lat |-> 0, lon |-> 0]
NoPrev == [req |-> NoReq, code |-> 0, ret |-> <<>>, failed |-> 0]

\* Python truthiness of the values a request body carries.
Falsy(s) == s = None \/ s = ""
FalsyNum(x) == x = <<>> \/ x[1] = 0
FalsyDate(x) == x.k = "none"

\* date.fromisoformat
fromisoformat(x) ==
  IF x.k = "iso" THEN [ok |-> "date", d |-> x.d]
  ELSE IF x.k = "bad" THEN [ok |-> "ValueError", d |-> 0]
  ELSE [ok |-> "TypeError", d |-> 0]

\* ------------------------------------------------------------- provider
\* get_weather_by_city(city, country)["coord"]
Coord(city, country) == [src |-> "current", lat |-> 5, lon |-> 6]

\* ----------------------------------------------------------------- crud
get_location_by_city(city, country) ==
  {l \in locs : l.city = city /\ l.country = country}

get_info_by_loc_date(location_id, date) ==
  {i \in infos : i.location_id = location_id /\ i.date = date}

crud_create_location(city, country, lat, lon) ==
  [id |-> nextLocId, city |-> city, country |-> country, lat |-> lat, lon |-> lon]

crud_create_info(location_id, info_date, via) ==
  [id |-> nextInfoId, location_id |-> location_id, date |-> info_date, via |-> via]

crud_delete_location(location_id) ==
  {l \in locs : l.id # location_id}

crud_delete_info(info_id) ==
  {i \in infos : i.id # info_id}

\* ------------------------------------------------------------ bookkeeping
\* What is remembered of a request once it is answered: an ingestion that got
\* past the checks of its body, until a delete succeeds.
Shift(p) ==
  IF req[p].op = "create_info" /\ res[p].code \in {200, 500}
     /\ res[p].detail # "TypeError"
  THEN [req |-> req[p], code |-> res[p].code, ret |-> ret[p], failed |-> cur[p]]
  ELSE IF req[p].op \in {"delete_location", "delete_weather_info"}
          /\ res[p].code = 200
  THEN NoPrev
  ELSE prev

\* Worker p takes request r: the locals of the handler are fresh.
Accept(p, r) ==
  /\ pc[p] = "idle"
  /\ served < MaxReqs
  /\ served' = served + 1
  /\ req' = [req EXCEPT ![p] = r]
  /\ UNCHANGED <<resp, created, newLoc, prev>>

\* raise HTTPException(status_code, detail), or an exception nothing catches
\* (status 500), or the return (status 200).
Answer(p, code, detail) ==
  /\ pc' = [pc EXCEPT ![p] = "done"]
  /\ res' = [res EXCEPT ![p] = [code |-> code, detail |-> detail]]

Init ==
  /\ locs = {}
  /\ infos = {}
  /\ nextLocId = 1
  /\ nextInfoId = 1
  /\ pc = [p \in Procs |-> "idle"]
  /\ req = [p \in Procs |-> NoReq]
  /\ res = [p \in Procs |-> NoRes]
  /\ loc = [p \in Procs |-> [id |-> 0, lat |-> <<>>, lon |-> <<>>]]
  /\ cur = [p \in Procs |-> 0]
  /\ ret = [p \in Procs |-> <<>>]
  /\ resp = [p \in Procs |-> NoResp]
  /\ calls = [p \in Procs |-> 0]
  /\ created = [p \in Procs |-> {}]
  /\ newLoc = [p \in Procs |-> {}]
  /\ prev = NoPrev
  /\ served = 0

\* -------------------------------------------------------- request bodies
Cities == {"", "London"}
Countries == {None, "GB"}
Nums == {<<>>, <<0>>, <<1>>}
DateInputs == {NoDate, BadDate, NonStr}
                \cup {Iso(d) : d \in {Today - 1, Today, Today + 1,
                                      Today + Horizon, Today + Horizon + 1}}

LocationBodies ==
  {[op |-> "create_location", city |-> c, country |-> k, lat |-> la, lon |-> lo,
    start_date |-> NoDate, end_date |-> NoDate, id |-> 0] :
     c \in Cities, k \in Countries, la \in Nums, lo \in Nums}

InfoBodies ==
  {[op |-> "create_info", city |-> c, country |-> k, lat |-> <<>>, lon |-> <<>>,
    start_date |-> s, end_date |-> e, id |-> 0] :
     c \in Cities, k \in Countries, s \in DateInputs, e \in DateInputs}

\* The requests two concurrent workers are given: well-formed ones.
RaceLocationBodies ==
  {r \in LocationBodies : r.city = "London" /\ r.country = "GB"
                          /\ r.lat = r.lon /\ r.lat # <<0>>}
RaceInfoBodies ==
  {r \in InfoBodies : /\ r.city = "London" /\ r.country = "GB"
                      /\ r.start_date = Iso(Today)
                      /\ r.end_date \in {Iso(Today), Iso(Today + 1)}}

DeleteReq(op, id) == [NoReq EXCEPT !.op = op, !.id = id]

\* ------------------------------------------------ POST /locations/
\* A variant of the handler's first step: the coordinate lookup made before
\* the city is checked.
create_location_validate_lookup_first(p, r) ==
  /\ r.op = "create_location"
  /\ Accept(p, r)
  /\ loc' = [loc EXCEPT ![p] = [id |-> 0, lat |-> r.lat, lon |-> r.lon]]
  /\ UNCHANGED <<cur, ret>>
  /\ IF Falsy(r.city)
     THEN /\ Answer(p, 400, "city is required")
          /\ calls' = [calls EXCEPT ![p] =
                         IF FalsyNum(r.lat) \/ FalsyNum(r.lon) THEN 1 ELSE 0]
     ELSE /\ pc' = [pc EXCEPT ![p] =
                      IF FalsyNum(r.lat) \/ FalsyNum(r.lon)
                      THEN "cl_fetch" ELSE "cl_check"]
          /\ res' = [res EXCEPT ![p] = NoRes]
          /\ UNCHANGED calls
  /\ UNCHANGED <<locs, infos, nextLocId, nextInfoId>>

\* lines 39-47: read the body, reject a missing city, decide on the lookup
create_location_validate(p, r) ==
  /\ r.op = "create_location"
  /\ Accept(p, r)
  /\ loc' = [loc EXCEPT ![p] = [id |-> 0, lat |-> r.lat, lon |-> r.lon]]
  /\ UNCHANGED <<cur, ret, calls>>
  /\ IF Falsy(r.city)
     THEN Answer(p, 400, "city is required")
     ELSE /\ pc' = [pc EXCEPT ![p] =
                      IF FalsyNum(r.lat) \/ FalsyNum(r.lon)
                      THEN "cl_fetch" ELSE "cl_check"]
          /\ res' = [res EXCEPT ![p] = NoRes]
  /\ UNCHANGED <<locs, infos, nextLocId, nextInfoId>>

\* lines 49-51: get_weather_by_city, which answers or raises
create_location_fetch(p) ==
  /\ pc[p] = "cl_fetch"
  /\ calls' = [calls EXCEPT ![p] = @ + 1]
  /\ \E ok \in BOOLEAN :
       IF ok
       THEN LET data == Coord(req[p].city, req[p].country) IN
            /\ loc' = [loc EXCEPT ![p] = [id |-> 0, lat |-> <<data.lat>>,
                                          lon |-> <<data.lon>>]]
            /\ pc' = [pc EXCEPT ![p] = "cl_check"]
            /\ UNCHANGED res
       ELSE /\ Answer(p, 500, "provider error")
            /\ UNCHANGED loc
  /\ UNCHANGED <<locs, infos, nextLocId, nextInfoId, req, cur, ret, resp,
                 created, newLoc, prev, served>>

\* A variant without the duplicate check.
create_location_check_nodup(p) ==
  /\ pc[p] = "cl_check"
  /\ pc' = [pc EXCEPT ![p] = "cl_create"]
  /\ UNCHANGED <<locs, infos, nextLocId, nextInfoId, req, res, loc, cur, ret,
                 resp, calls, created, newLoc, prev, served>>

\* lines 54-56: the duplicate check
create_location_check(p) ==
  /\ pc[p] = "cl_check"
  /\ IF get_location_by_city(req[p].city, req[p].country) # {}
     THEN Answer(p, 400, "Location already exists")
     ELSE /\ pc' = [pc EXCEPT ![p] = "cl_create"]
          /\ UNCHANGED res
  /\ UNCHANGED <<locs, infos, nextLocId, nextInfoId, req, loc, cur, ret, resp,
                 calls, created, newLoc, prev, served>>

\* lines 59-60: the insert and the return
create_location_create(p) ==
  /\ pc[p] = "cl_create"
  /\ LET row == crud_create_location(req[p].city, req[p].country,
                                     loc[p].lat, loc[p].lon) IN
     /\ locs' = locs \cup {row}
     /\ nextLocId' = nextLocId + 1
     /\ newLoc' = [newLoc EXCEPT ![p] = @ \cup {row.id}]
     /\ loc' = [loc EXCEPT ![p].id = row.id]
  /\ Answer(p, 200, "")
  /\ UNCHANGED <<infos, nextInfoId, req, cur, ret, resp, calls, created, prev, served>>

\* ------------------------------------------------ DELETE /locations/{id}
\* lines 99-102
delete_location(p, location_id) ==
  /\ Accept(p, DeleteReq("delete_location", location_id))
  /\ locs' = crud_delete_location(location_id)
  /\ IF \E l \in locs : l.id = location_id
     THEN Answer(p, 200, "")
     ELSE Answer(p, 404, "Location not found")
  /\ UNCHANGED <<infos, nextLocId, nextInfoId, loc, cur, ret, calls>>

\* ------------------------------------------------ DELETE /weather_infos/{id}
\* lines 279-282
delete_weather_info(p, info_id) ==
  /\ Accept(p, DeleteReq("delete_weather_info", info_id))
  /\ infos' = crud_delete_info(info_id)
  /\ IF \E i \in infos : i.id = info_id
     THEN Answer(p, 200, "")
     ELSE Answer(p, 404, "Weather info not found")
  /\ UNCHANGED <<locs, nextLocId, nextInfoId, loc, cur, ret, calls>>

\* ------------------------------------------------ POST /weather_infos/
\* A variant of the checks that tests only start_date against the horizon.
Validate_end_unchecked(r) ==
  LET start == fromisoformat(r.start_date)
      end == fromisoformat(r.end_date)
  IN IF Falsy(r.city) \/ FalsyDate(r.start_date) \/ FalsyDate(r.end_date)
     THEN [code |-> 400, detail |-> "city, start_date, and end_date are required"]
     ELSE IF start.ok = "ValueError"
     THEN [code |-> 400, detail |-> "Invalid date format. Use YYYY-MM-DD"]
     ELSE IF start.ok = "TypeError"
     THEN [code |-> 500, detail |-> "TypeError"]
     ELSE IF end.ok = "ValueError"
     THEN [code |-> 400, detail |-> "Invalid date format. Use YYYY-MM-DD"]
     ELSE IF end.ok = "TypeError"
     THEN [code |-> 500, detail |-> "TypeError"]
     ELSE IF start.d > end.d
     THEN [code |-> 400, detail |-> "start_date must be before end_date"]
     ELSE IF start.d < Today \/ end.d < Today
     THEN [code |-> 400, detail |-> "Historical data is not supported in free OpenWeather API"]
     ELSE IF start.d > Today + Horizon
     THEN [code |-> 400, detail |-> "Max 5 days forecast supported in free OpenWeather API"]
     ELSE NoRes

\* A variant of the checks without the test start > end.
Validate_no_order(r) ==
  LET start == fromisoformat(r.start_date)
      end == fromisoformat(r.end_date)
  IN IF Falsy(r.city) \/ FalsyDate(r.start_date) \/ FalsyDate(r.end_date)
     THEN [code |-> 400, detail |-> "city, start_date, and end_date are required"]
     ELSE IF start.ok = "ValueError"
     THEN [code |-> 400, detail |-> "Invalid date format. Use YYYY-MM-DD"]
     ELSE IF start.ok = "TypeError"
     THEN [code |-> 500, detail |-> "TypeError"]
     ELSE IF end.ok = "ValueError"
     THEN [code |-> 400, detail |-> "Invalid date format. Use YYYY-MM-DD"]
     ELSE IF end.ok = "TypeError"
     THEN [code |-> 500, detail |-> "TypeError"]
     ELSE IF start.d < Today \/ end.d < Today
     THEN [code |-> 400, detail |-> "Historical data is not supported in free OpenWeather API"]
     ELSE IF start.d > Today + Horizon \/ end.d > Today + Horizon
     THEN [code |-> 400, detail |-> "Max 5 days forecast supported in free OpenWeather API"]
     ELSE NoRes

\* lines 130-155: the checks of the body, in the order of the code
Validate(r) ==
  LET start == fromisoformat(r.start_date)
      end == fromisoformat(r.end_date)
  IN IF Falsy(r.city) \/ FalsyDate(r.start_date) \/ FalsyDate(r.end_date)
     THEN [code |-> 400, detail |-> "city, start_date, and end_date are required"]
     ELSE IF start.ok = "ValueError"
     THEN [code |-> 400, detail |-> "Invalid date format. Use YYYY-MM-DD"]
     ELSE IF start.ok = "TypeError"
     THEN [code |-> 500, detail |-> "TypeError"]
     ELSE IF end.ok = "ValueError"
     THEN [code |-> 400, detail |-> "Invalid date format. Use YYYY-MM-DD"]
     ELSE IF end.ok = "TypeError"
     THEN [code |-> 500, detail |-> "TypeError"]
     ELSE IF start.d > end.d
     THEN [code |-> 400, detail |-> "start_date must be before end_date"]
     ELSE IF start.d < Today \/ end.d < Today
     THEN [code |-> 400, detail |-> "Historical data is not supported in free OpenWeather API"]
     ELSE IF start.d > Today + Horizon \/ end.d > Today + Horizon
     THEN [code |-> 400, detail |-> "Max 5 days forecast supported in free OpenWeather API"]
     ELSE NoRes

create_info_validate(p, r) ==
  /\ r.op = "create_info"
  /\ Accept(p, r)
  /\ UNCHANGED <<loc, ret, calls>>
  /\ LET v == Validate(r) IN
     IF v.code # 0
     THEN /\ Answer(p, v.code, v.detail)
          /\ UNCHANGED cur
     ELSE /\ pc' = [pc EXCEPT ![p] = "ci_get_loc"]
          /\ res' = [res EXCEPT ![p] = NoRes]
          /\ cur' = [cur EXCEPT ![p] = fromisoformat(r.start_date).d]
  /\ UNCHANGED <<locs, infos, nextLocId, nextInfoId>>

\* lines 158-159: crud.get_location_by_city; .first() of an unordered query
create_info_get_loc(p) ==
  /\ pc[p] = "ci_get_loc"
  /\ LET found == get_location_by_city(req[p].city, req[p].country) IN
     IF found = {}
     THEN /\ pc' = [pc EXCEPT ![p] = "ci_fetch_coord"]
          /\ UNCHANGED loc
     ELSE \E l \in found :
            /\ loc' = [loc EXCEPT ![p].id = l.id]
            /\ pc' = [pc EXCEPT ![p] = "ci_loop"]
  /\ UNCHANGED <<locs, infos, nextLocId, nextInfoId, req, res, cur, ret, resp,
                 calls, created, newLoc, prev, served>>

\* line 160: get_weather_by_city for the coordinates
create_info_fetch_coord(p) ==
  /\ pc[p] = "ci_fetch_coord"
  /\ calls' = [calls EXCEPT ![p] = @ + 1]
  /\ \E ok \in BOOLEAN :
       IF ok
       THEN /\ resp' = [resp EXCEPT ![p] = Coord(req[p].city, req[p].country)]
            /\ pc' = [pc EXCEPT ![p] = "ci_create_loc"]
            /\ UNCHANGED res
       ELSE /\ Answer(p, 500, "provider error")
            /\ UNCHANGED resp
  /\ UNCHANGED <<locs, infos, nextLocId, nextInfoId, req, loc, cur, ret,
                 created, newLoc, prev, served>>

\* lines 161-162: crud.create_location
create_info_create_loc(p) ==
  /\ pc[p] = "ci_create_loc"
  /\ LET row == crud_create_location(req[p].city, req[p].country,
                                     <<resp[p].lat>>, <<resp[p].lon>>) IN
     /\ locs' = locs \cup {row}
     /\ nextLocId' = nextLocId + 1
     /\ newLoc' = [newLoc EXCEPT ![p] = @ \cup {row.id}]
     /\ loc' = [loc EXCEPT ![p].id = row.id]
  /\ resp' = [resp EXCEPT ![p] = NoResp]
  /\ pc' = [pc EXCEPT ![p] = "ci_loop"]
  /\ UNCHANGED <<infos, nextInfoId, req, res, cur, ret, calls, created, prev, served>>

\* A variant of the loop that never reuses a stored row.
create_info_lookup_noreuse(p) ==
  /\ pc[p] = "ci_loop"
  /\ IF cur[p] > fromisoformat(req[p].end_date).d
     THEN /\ Answer(p, 200, "")
          /\ UNCHANGED <<cur, ret>>
     ELSE /\ pc' = [pc EXCEPT ![p] = "ci_fetch"]
          /\ UNCHANGED <<res, cur, ret>>
  /\ UNCHANGED <<locs, infos, nextLocId, nextInfoId, req, loc, resp, calls,
                 created, newLoc, prev, served>>

\* lines 167-170 and 188-190: the loop test, the lookup of the date, the reuse
\* of a stored row, the return
create_info_lookup(p) ==
  /\ pc[p] = "ci_loop"
  /\ IF cur[p] > fromisoformat(req[p].end_date).d
     THEN /\ Answer(p, 200, "")
          /\ UNCHANGED <<cur, ret>>
     ELSE LET found == get_info_by_loc_date(loc[p].id, cur[p]) IN
          IF found = {}
          THEN /\ pc' = [pc EXCEPT ![p] = "ci_fetch"]
               /\ UNCHANGED <<res, cur, ret>>
          ELSE \E info \in found :
                 /\ ret' = [ret EXCEPT ![p] = Append(@, info)]
                 /\ cur' = [cur EXCEPT ![p] = @ + 1]
                 /\ UNCHANGED <<pc, res>>
  /\ UNCHANGED <<locs, infos, nextLocId, nextInfoId, req, loc, resp, calls,
                 created, newLoc, prev, served>>

\* A variant that asks for the forecast of every date.
FetchKind_always_forecast(current) == "forecast"

\* lines 172-175: current weather for today, the forecast otherwise
FetchKind(current) == IF current = Today THEN "current" ELSE "forecast"

\* A variant in which a failed provider call rolls the request's rows back.
create_info_fetch_rollback(p) ==
  /\ pc[p] = "ci_fetch"
  /\ calls' = [calls EXCEPT ![p] = @ + 1]
  /\ \E ok \in BOOLEAN :
       IF ok
       THEN /\ resp' = [resp EXCEPT ![p] = [NoResp EXCEPT !.src = FetchKind(cur[p])]]
            /\ pc' = [pc EXCEPT ![p] = "ci_store"]
            /\ UNCHANGED <<res, infos>>
       ELSE /\ Answer(p, 500, "provider error")
            /\ infos' = {i \in infos : i.id \notin created[p]}
            /\ UNCHANGED resp
  /\ UNCHANGED <<locs, nextLocId, nextInfoId, req, loc, cur, ret,
                 created, newLoc, prev, served>>

create_info_fetch(p) ==
  /\ pc[p] = "ci_fetch"
  /\ calls' = [calls EXCEPT ![p] = @ + 1]
  /\ \E ok \in BOOLEAN :
       IF ok
       THEN /\ resp' = [resp EXCEPT ![p] = [NoResp EXCEPT !.src = FetchKind(cur[p])]]
            /\ pc' = [pc EXCEPT ![p] = "ci_store"]
            /\ UNCHANGED res
       ELSE /\ Answer(p, 500, "provider error")
            /\ UNCHANGED resp
  /\ UNCHANGED <<locs, infos, nextLocId, nextInfoId, req, loc, cur, ret,
                 created, newLoc, prev, served>>

\* lines 177-189: crud.create_info, infos.append, current += 1 day
create_info_store(p) ==
  /\ pc[p] = "ci_store"
  /\ LET info == crud_create_info(loc[p].id, cur[p], resp[p].src) IN
     /\ infos' = infos \cup {info}
     /\ nextInfoId' = nextInfoId + 1
     /\ created' = [created EXCEPT ![p] = @ \cup {info.id}]
     /\ ret' = [ret EXCEPT ![p] = Append(@, info)]
  /\ cur' = [cur EXCEPT ![p] = @ + 1]
  /\ resp' = [resp EXCEPT ![p] = NoResp]
  /\ pc' = [pc EXCEPT ![p] = "ci_loop"]
  /\ UNCHANGED <<locs, nextLocId, req, res, loc, calls, newLoc, prev, served>>

\* ------------------------------------------------ the response is sent
\* The worker thread is free again; the locals of the handler are gone.
respond(p) ==
  /\ pc[p] = "done"
  /\ prev' = Shift(p)
  /\ pc' = [pc EXCEPT ![p] = "idle"]
  /\ req' = [req EXCEPT ![p] = NoReq]
  /\ res' = [res EXCEPT ![p] = NoRes]
  /\ loc' = [loc EXCEPT ![p] = [id |-> 0, lat |-> <<>>, lon |-> <<>>]]
  /\ cur' = [cur EXCEPT ![p] = 0]
  /\ ret' = [ret EXCEPT ![p] = <<>>]
  /\ resp' = [resp EXCEPT ![p] = NoResp]
  /\ calls' = [calls EXCEPT ![p] = 0]
  /\ created' = [created EXCEPT ![p] = {}]
  /\ newLoc' = [newLoc EXCEPT ![p] = {}]
  /\ UNCHANGED <<locs, infos, nextLocId, nextInfoId, served>>

\* ------------------------------------------------------- specifications
Step(p) ==
  \/ create_location_fetch(p)
  \/ create_location_check(p)
  \/ create_location_create(p)
  \/ create_info_get_loc(p)
  \/ create_info_fetch_coord(p)
  \/ create_info_create_loc(p)
  \/ create_info_lookup(p)
  \/ create_info_fetch(p)
  \/ create_info_store(p)
  \/ respond(p)

\* One request at a time: a single worker serves every request.
Next ==
  \/ \E r \in LocationBodies : create_location_validate(1, r)
  \/ \E r \in InfoBodies : create_info_validate(1, r)
  \/ \E id \in 1..nextLocId : delete_location(1, id)
  \/ \E id \in 1..nextInfoId : delete_weather_info(1, id)
  \/ Step(1)

Spec == Init /\ [][Next]_vars

\* Two workers, whose steps interleave.
NextConc ==
  \E p \in Procs :
    \/ \E r \in RaceLocationBodies : create_location_validate(p, r)
    \/ \E r \in RaceInfoBodies : create_info_validate(p, r)
    \/ \E id \in 1..nextLocId : delete_location(p, id)
    \/ \E id \in 1..nextInfoId : delete_weather_info(p, id)
    \/ Step(p)

SpecConc == Init /\ [][NextConc]_vars

\* ---------------------------------------------------------------- claims
Ingesting(p) == req[p].op = "create_info"
Creating(p) == req[p].op = "create_location"
Parsed(r) == r.start_date.k = "iso" /\ r.end_date.k = "iso"
Start(p) == fromisoformat(req[p].start_date).d
End(p) == fromisoformat(req[p].end_date).d
OutOfHorizon(d) == d < Today \/ d > Today + Horizon
Ids(rows) == {row.id : row \in rows}
RetIds(p) == {ret[p][i].id : i \in 1..Len(ret[p])}
StoredBefore(p) ==
  {l \in get_location_by_city(req[p].city, req[p].country) : l.id \notin newLoc[p]}

\* C1: in every reachable state, also when two ingestion requests for the same
\* location and overlapping dates interleave, the store holds at most one
\* WeatherInfo row per (location, date).
C1_OnePerLocationDate ==
  \A i \in infos : \A j \in infos :
    (i.location_id = j.location_id /\ i.date = j.date) => i.id = j.id

\* C2: after any sequence of create-location, ingestion, delete-location and
\* delete-weather-info requests, every stored WeatherInfo row references a
\* WeatherLocation row that is in the store.
C2_InfoReferencesLocation ==
  \A i \in infos : \E l \in locs : l.id = i.location_id

\* C3 as stated: a create-location with a non-empty city succeeds and stores
\* one row when (city, country) is not stored, and is answered 400 "Location
\* already exists", storing nothing, when it is.
C3_CreateSucceedsOrConflicts ==
  \A p \in Procs :
    (pc[p] = "done" /\ Creating(p) /\ ~Falsy(req[p].city)) =>
      IF StoredBefore(p) = {}
      THEN res[p].code = 200 /\ Cardinality(newLoc[p]) = 1
      ELSE res[p] = [code |-> 400, detail |-> "Location already exists"]
           /\ newLoc[p] = {}

\* C3 as amended: the same, except that a request whose coordinate lookup fails
\* at the provider ends with the provider's error and stores nothing; and with
\* one request at a time no two stored locations share (city, country).
C3_CreateOrConflictUnlessProviderFails ==
  /\ \A p \in Procs :
       (pc[p] = "done" /\ Creating(p) /\ ~Falsy(req[p].city)) =>
         IF res[p].detail = "provider error"
         THEN res[p].code = 500 /\ newLoc[p] = {} /\ calls[p] = 1
         ELSE IF StoredBefore(p) = {}
         THEN res[p].code = 200 /\ Cardinality(newLoc[p]) = 1
              /\ newLoc[p] \subseteq Ids(locs)
         ELSE res[p] = [code |-> 400, detail |-> "Location already exists"]
              /\ newLoc[p] = {}
  /\ \A l1 \in locs : \A l2 \in locs :
       (l1.city = l2.city /\ l1.country = l2.country) => l1.id = l2.id

C3_Witness ==
  \E p \in Procs :
    /\ pc[p] = "done" /\ Creating(p)
    /\ res[p].detail = "Location already exists"
    /\ calls[p] = 0
    /\ \E l \in locs : l.city = req[p].city /\ l.country = req[p].country

C5_StartAfterEndRejected ==
  [][\A p \in Procs :
       (pc[p] = "idle" /\ pc'[p] # "idle" /\ req'[p].op = "create_info"
        /\ Parsed(req'[p])
        /\ req'[p].start_date.d > req'[p].end_date.d) =>
         /\ pc'[p] = "done"
         /\ res'[p].code = 400
         /\ locs' = locs /\ infos' = infos
         /\ nextLocId' = nextLocId /\ nextInfoId' = nextInfoId
         /\ calls'[p] = 0 /\ created'[p] = {} /\ newLoc'[p] = {}]_vars

C5_Witness ==
  \E p \in Procs :
    /\ Ingesting(p) /\ pc[p] = "done" /\ res[p].code = 400
    /\ ~Falsy(req[p].city) /\ Parsed(req[p])
    /\ Start(p) = Today + 1 /\ End(p) = Today
    /\ infos # {}

\* C6: an ingestion request equal to the last one that succeeded, with no
\* delete since, inserts no row, makes no provider call, returns the rows the
\* first one returned, and leaves exactly one row per date of the range.
C6_SecondIngestionReuses ==
  \A p \in Procs :
    (Ingesting(p) /\ prev.code = 200 /\ prev.req = req[p]) =>
      /\ calls[p] = 0 /\ created[p] = {} /\ newLoc[p] = {}
      /\ pc[p] = "done" =>
           /\ res[p].code = 200
           /\ ret[p] = prev.ret
           /\ \A d \in Start(p)..End(p) :
                Cardinality(get_info_by_loc_date(loc[p].id, d)) = 1

C6_Witness ==
  \E p \in Procs :
    /\ Ingesting(p) /\ prev.code = 200 /\ prev.req = req[p]
    /\ pc[p] = "done" /\ Len(ret[p]) >= 2

\* C7: an ingestion that passed the checks of its body succeeds unless a
\* provider call fails; a successful ingestion returns end - start + 1 rows of its location,
\* one per date of the range in ascending order; a row the request inserted
\* holds current weather if and only if its date is today, and when the range
\* held no row before, each date cost exactly one provider call.
C7_OneRowPerDateInOrder ==
  \A p \in Procs :
    /\ (Ingesting(p) /\ pc[p] = "done" /\ Validate(req[p]) = NoRes) =>
         (res[p].code = 200 \/ res[p].detail = "provider error")
    /\ (Ingesting(p) /\ pc[p] = "done" /\ res[p].code = 200) =>
      /\ Len(ret[p]) = End(p) - Start(p) + 1
      /\ \A i \in 1..Len(ret[p]) :
           /\ ret[p][i].date = Start(p) + i - 1
           /\ ret[p][i].location_id = loc[p].id
           /\ ret[p][i] \in infos
           /\ ret[p][i].id \in created[p] =>
                (ret[p][i].via = "current" <=> ret[p][i].date = Today)
      /\ RetIds(p) = created[p] =>
           calls[p] = Len(ret[p]) + Cardinality(newLoc[p])

C7_Witness ==
  \E p \in Procs :
    /\ Ingesting(p) /\ pc[p] = "done" /\ res[p].code = 200
    /\ Start(p) = Today /\ End(p) = Today + Horizon
    /\ RetIds(p) = created[p]
    /\ ret[p][1].via = "current" /\ ret[p][Horizon + 1].via = "forecast"

\* C8 as stated: a create-location or ingestion request answered 400 has made
\* no provider call and no insert.
C8_RejectedBeforeAnyEffect ==
  \A p \in Procs :
    (pc[p] = "done" /\ res[p].code = 400 /\ (Creating(p) \/ Ingesting(p))) =>
      calls[p] = 0 /\ created[p] = {} /\ newLoc[p] = {}

\* C8 as amended: such a request has made no insert, and no provider call
\* either unless it is a create-location answered "Location already exists",
\* whose coordinate lookup (lat or lon absent or zero) precedes the duplicate
\* check.
C8_RejectedBeforeAnyWrite ==
  \A p \in Procs :
    (pc[p] = "done" /\ res[p].code = 400 /\ (Creating(p) \/ Ingesting(p))) =>
      /\ created[p] = {} /\ newLoc[p] = {}
      /\ \/ calls[p] = 0
         \/ /\ Creating(p)
            /\ res[p].detail = "Location already exists"
            /\ calls[p] = 1
            /\ FalsyNum(req[p].lat) \/ FalsyNum(req[p].lon)

C8_Witness ==
  \E p \in Procs :
    /\ pc[p] = "done" /\ Creating(p) /\ res[p].code = 400
    /\ res[p].detail = "Location already exists"
    /\ calls[p] = 1

\* C9: when a provider call fails for date d of an ingestion, the request ends
\* in failure and what it inserted stays: its location and its rows, all for
\* dates before d; and a retry of the same request, with no delete since,
\* returns those rows again and inserts rows only for d and later dates.
C9_PartialProgressPersists ==
  \A p \in Procs :
    Ingesting(p) =>
      /\ (pc[p] = "done" /\ res[p].detail = "provider error") =>
           /\ res[p].code = 500
           /\ newLoc[p] \subseteq Ids(locs)
           /\ created[p] \subseteq Ids(infos)
           /\ created[p] \subseteq RetIds(p)
           /\ cur[p] \in Start(p)..End(p)
           /\ Len(ret[p]) = cur[p] - Start(p)
           /\ \A i \in 1..Len(ret[p]) :
                ret[p][i] \in infos /\ ret[p][i].date = Start(p) + i - 1
           /\ \A i \in infos :
                (i.location_id = loc[p].id /\ i.date >= cur[p]) =>
                  i.id \notin created[p]
      /\ (prev.code = 500 /\ prev.req = req[p]) =>
           /\ \A i \in 1..Len(ret[p]) :
                i <= Len(prev.ret) => ret[p][i] = prev.ret[i]
           /\ \A i \in infos : i.id \in created[p] => i.date >= prev.failed
           /\ prev.ret # <<>> => newLoc[p] = {}

C9_Witness ==
  \E p \in Procs :
    /\ Ingesting(p) /\ prev.code = 500 /\ prev.req = req[p]
    /\ prev.ret # <<>>
    /\ pc[p] = "done" /\ res[p].code = 200
    /\ created[p] # {} /\ Len(ret[p]) > Len(prev.ret)

\* C10: create-location calls the provider if and only if lat or lon is absent
\* from the body, and when both are supplied the stored row carries exactly
\* the supplied values.
C10_LookupOnlyWhenAbsent ==
  \A p \in Procs :
    (Creating(p) /\ pc[p] \in {"cl_check", "cl_create", "done"}
     /\ ~Falsy(req[p].city)) =>
      /\ calls[p] > 0 <=> (req[p].lat = <<>> \/ req[p].lon = <<>>)
      /\ (req[p].lat # <<>> /\ req[p].lon # <<>>) =>
           \A l \in locs :
             l.id \in newLoc[p] => l.lat = req[p].lat /\ l.lon = req[p].lon

====
